---- MODULE Spec2Model ----
(***************************************************************************)
(* Model of interface/components/Footer.tsx: the getAssets derivation, the *)
(* useMemo hook keyed on [mode], and the markup Footer returns, driven by  *)
(* the host's mount / re-render / unmount of one Footer instance.          *)
(*                                                                         *)
(* Representation.  A JavaScript string is a sequence of chunks; the chunk *)
(* " " is the blank that separates class tokens, every other chunk is a    *)
(* run of non-blank characters.  Concatenation of strings is \o.  A        *)
(* JavaScript value is a record: Undefined, or Str(s) for a string s.      *)
(* Objects live in a heap indexed by reference; reference 0 is "no object".*)
(***************************************************************************)
EXTENDS Integers, Sequences, FiniteSets, TLC

VARIABLES mounted, mode, className, env, hook, heap, nextId, output,
          prev, history, renders

vars == <<mounted, mode, className, env, hook, heap, nextId, output,
          prev, history, renders>>

\* Number of renders explored in one behaviour.
MaxRenders == 3

-----------------------------------------------------------------------------
\* JavaScript values

Undefined == [t |-> "undefined", s |-> <<>>]

Str(s) == [t |-> "string", s |-> s]

\* Values a caller passes as `mode` (UIMode is not enforced at run time).
ModeValues == {Undefined, Str(<<"light">>), Str(<<"dark">>), Str(<<"system">>)}

\* Values a caller passes as `className`.
ClassNameValues == {Undefined, Str(<<>>), Str(<<"extra-class">>),
                    Str(<<"mt-4", " ", "undefined">>)}

\* Values of process.env.NEXT_PUBLIC_GIT_COMMIT_HASH.
CommitHashValues == {Undefined, Str(<<>>), Str(<<"3f2a9c1">>)}

\* `${v}` in a template literal: the ToString conversion of the value.
Interpolate(v) == IF v.t = "undefined" THEN <<"undefined">> ELSE v.s

\* The layout-padding class string exported by ./PageLayout.
PAGE_PADDING == <<"PAGE_PADDING">>

-----------------------------------------------------------------------------
\* getAssets

getAssetsInverted(m) ==
  LET darkMode == m # Str(<<"dark">>)
  IN [emphasisColor |-> IF darkMode THEN <<"white">> ELSE <<"black">>,
      docsIcon |-> IF darkMode THEN <<"/assets/docsIconLight.svg">>
                               ELSE <<"/assets/docsIconDark.svg">>,
      githubLogo |-> IF darkMode THEN <<"/assets/githubLogoLight.svg">>
                                 ELSE <<"/assets/githubLogoDark.svg">>]

getAssetsTruthy(m) ==
  LET darkMode == m.t = "string" /\ m # Str(<<"light">>)
  IN [emphasisColor |-> IF darkMode THEN <<"white">> ELSE <<"black">>,
      docsIcon |-> IF darkMode THEN <<"/assets/docsIconLight.svg">>
                               ELSE <<"/assets/docsIconDark.svg">>,
      githubLogo |-> IF darkMode THEN <<"/assets/githubLogoLight.svg">>
                                 ELSE <<"/assets/githubLogoDark.svg">>]

getAssets(m) ==
  LET darkMode == m = Str(<<"dark">>)
  IN [emphasisColor |-> IF darkMode THEN <<"white">> ELSE <<"black">>,
      docsIcon |-> IF darkMode THEN <<"/assets/docsIconLight.svg">>
                               ELSE <<"/assets/docsIconDark.svg">>,
      githubLogo |-> IF darkMode THEN <<"/assets/githubLogoLight.svg">>
                                 ELSE <<"/assets/githubLogoDark.svg">>]

-----------------------------------------------------------------------------
\* useMemo(() => getAssets(mode), [mode])

NoHook == [set |-> FALSE, deps |-> Undefined, value |-> 0]

\* The hook cell, heap and allocation counter after the call.  The factory
\* runs, allocating a fresh object, on mount and whenever the dependency is
\* not Object.is-equal to the stored one; otherwise the stored reference is
\* returned.
useMemoAlways(h, hp, id, m) ==
  [hook |-> [set |-> TRUE, deps |-> m, value |-> id],
   heap |-> (id :> getAssets(m)),
   nextId |-> id + 1]

useMemoOnce(h, hp, id, m) ==
  IF h.set
    THEN [hook |-> [h EXCEPT !.deps = m], heap |-> hp, nextId |-> id]
    ELSE [hook |-> [set |-> TRUE, deps |-> m, value |-> id],
          heap |-> (id :> getAssets(m)),
          nextId |-> id + 1]

useMemoNull(h, hp, id, m) ==
  IF h.set /\ h.deps = m
    THEN [hook |-> [h EXCEPT !.value = 0], heap |-> hp, nextId |-> id]
    ELSE [hook |-> [set |-> TRUE, deps |-> m, value |-> id],
          heap |-> (id :> getAssets(m)),
          nextId |-> id + 1]

useMemoLoose(h, hp, id, m) ==
  IF h.set /\ h.deps.t = m.t
    THEN [hook |-> [h EXCEPT !.deps = m], heap |-> hp, nextId |-> id]
    ELSE [hook |-> [set |-> TRUE, deps |-> m, value |-> id],
          heap |-> (id :> getAssets(m)),
          nextId |-> id + 1]

useMemo(h, hp, id, m) ==
  IF h.set /\ h.deps = m
    THEN [hook |-> h, heap |-> hp, nextId |-> id]
    ELSE [hook |-> [set |-> TRUE, deps |-> m, value |-> id],
          heap |-> (id :> getAssets(m)),
          nextId |-> id + 1]

\* Whether a reference denotes an object.
IsObject(hp, ref) == ref \in DOMAIN hp

-----------------------------------------------------------------------------
\* The markup

NoImg == [present |-> FALSE, src |-> <<>>, alt |-> <<>>]

Img(src, alt) == [present |-> TRUE, src |-> src, alt |-> alt]

BaseClasses == <<"flex", " ", "h-[120px]", " ", "items-center", " ",
                 "justify-between", " ", "text-base">>

RootClassNameDropped(c) == BaseClasses \o <<" ">> \o PAGE_PADDING \o <<" ">>

RootClassName(c) ==
  BaseClasses \o <<" ">> \o PAGE_PADDING \o <<" ">> \o Interpolate(c)

CommitUrlPrefix == <<"https://github.com/gitcoinco/passport-scorer/commit/">>

CommitHref(hash) == CommitUrlPrefix \o Interpolate(hash)

LeftRegion(assets) ==
  [text |-> <<"Available", " ", "on">>,
   link |-> [href |-> <<"https://ceramic.network/">>,
             className |-> <<"text-">> \o assets.emphasisColor
                           \o <<" ", "ml-1", " ", "hover:underline">>,
             text |-> <<"Ceramic.">>,
             img |-> NoImg]]

CommitLink(hash) ==
  [href |-> CommitHref(hash),
   className |-> <<"mr-8", " ", "text-purple-darkpurple">>,
   text |-> <<"Git", " ", "commit">>,
   img |-> NoImg]

GithubLink(assets) ==
  [href |-> <<"https://github.com/gitcoinco/passport">>,
   className |-> <<"mr-8">>,
   text |-> <<>>,
   img |-> Img(assets.githubLogo, <<"Github", " ", "Logo">>)]

DocsLink(assets) ==
  [href |-> <<"https://docs.passport.gitcoin.co/building-with-passport/quick-start-guide">>,
   className |-> <<>>,
   text |-> <<>>,
   img |-> Img(assets.docsIcon, <<"Docs", " ", "Icon">>)]

RightRegionSwapped(assets, hash) ==
  <<CommitLink(hash), DocsLink(assets), GithubLink(assets)>>

RightRegion(assets, hash) ==
  <<CommitLink(hash), GithubLink(assets), DocsLink(assets)>>

\* Outcome of a render that threw before returning markup.
RenderError ==
  [status |-> "error", className |-> <<>>,
   left |-> [text |-> <<>>,
             link |-> [href |-> <<>>, className |-> <<>>, text |-> <<>>,
                       img |-> NoImg]],
   right |-> <<>>]

NoOutput == [RenderError EXCEPT !.status = "none"]

\* The JSX returned by Footer, given the memoised reference.  Reading a
\* property of a reference that denotes no object throws.
FooterMarkup(hp, ref, c, hash) ==
  IF ~IsObject(hp, ref)
    THEN RenderError
    ELSE [status |-> "ok",
          className |-> RootClassName(c),
          left |-> LeftRegion(hp[ref]),
          right |-> RightRegion(hp[ref], hash)]

-----------------------------------------------------------------------------
\* State machine: the host mounts, re-renders and unmounts one Footer

NoPrev == [valid |-> FALSE, mode |-> Undefined, className |-> Undefined,
           ref |-> 0, nextId |-> 0]

Init ==
  /\ mounted = FALSE
  /\ mode = Undefined
  /\ className = Undefined
  /\ env \in CommitHashValues
  /\ hook = NoHook
  /\ heap = <<>>
  /\ nextId = 1
  /\ output = NoOutput
  /\ prev = NoPrev
  /\ history = <<>>
  /\ renders = 0

\* One call of Footer({mode: m, className: c}).
Footer(m, c) ==
  LET r == useMemo(hook, heap, nextId, m)
      out == FooterMarkup(r.heap, r.hook.value, c, env)
  IN /\ hook' = r.hook
     /\ heap' = r.heap
     /\ nextId' = r.nextId
     /\ output' = out
     /\ mode' = m
     /\ className' = c
     /\ history' = Append(history,
                     [mode |-> m, className |-> c, env |-> env, markup |-> out])
     /\ renders' = renders + 1
     /\ UNCHANGED env

Mount(m, c) ==
  /\ ~mounted
  /\ renders < MaxRenders
  /\ mounted' = TRUE
  /\ prev' = NoPrev
  /\ Footer(m, c)

Rerender(m, c) ==
  /\ mounted
  /\ renders < MaxRenders
  /\ mounted' = TRUE
  /\ prev' = [valid |-> TRUE, mode |-> mode, className |-> className,
              ref |-> hook.value, nextId |-> nextId]
  /\ Footer(m, c)

Unmount ==
  /\ mounted
  /\ mounted' = FALSE
  /\ hook' = NoHook
  /\ heap' = <<>>
  /\ output' = NoOutput
  /\ prev' = NoPrev
  /\ UNCHANGED <<mode, className, env, nextId, history, renders>>

Next ==
  \/ \E m \in ModeValues, c \in ClassNameValues : Mount(m, c)
  \/ \E m \in ModeValues, c \in ClassNameValues : Rerender(m, c)
  \/ Unmount

Spec == Init /\ [][Next]_vars

-----------------------------------------------------------------------------
\* Vocabulary of the properties

\* The bundle the current render used.
assets == heap[hook.value]

LightVariant == [emphasisColor |-> <<"black">>,
                 docsIcon |-> <<"/assets/docsIconDark.svg">>,
                 githubLogo |-> <<"/assets/githubLogoDark.svg">>]

DarkVariant == [emphasisColor |-> <<"white">>,
                docsIcon |-> <<"/assets/docsIconLight.svg">>,
                githubLogo |-> <<"/assets/githubLogoLight.svg">>]

Dark == Str(<<"dark">>)

\* t occurs in s as a contiguous run of chunks.
Occurs(t, s) ==
  \E i \in 0..(Len(s) - Len(t)) : SubSeq(s, i + 1, i + Len(t)) = t

IsPrefix(t, s) == Len(t) <= Len(s) /\ SubSeq(s, 1, Len(t)) = t

RECURSIVE SplitBlank(_, _, _)
SplitBlank(s, cur, acc) ==
  LET flushed == IF cur = <<>> THEN acc ELSE Append(acc, cur)
  IN IF s = <<>> THEN flushed
     ELSE IF Head(s) = " " THEN SplitBlank(Tail(s), <<>>, flushed)
     ELSE SplitBlank(Tail(s), Append(cur, Head(s)), acc)

\* The class tokens of a class attribute: its maximal blank-free runs.
ClassList(s) == SplitBlank(s, <<>>, <<>>)

Inputs(r) == <<r.mode, r.className, r.env>>

Hrefs(links) == [i \in DOMAIN links |-> links[i].href]

-----------------------------------------------------------------------------
\* Properties

\* C1: whenever the footer is rendered with a mode other than "dark"
\* (undefined, "light" or any other string), the bundle it used is the light
\* variant: emphasis colour black, githubLogoDark.svg and docsIconDark.svg,
\* and the markup shows these values.
C1_LightVariant ==
  (mounted /\ mode # Dark) =>
     /\ output.status = "ok"
     /\ assets.emphasisColor = <<"black">>
     /\ assets.githubLogo = <<"/assets/githubLogoDark.svg">>
     /\ assets.docsIcon = <<"/assets/docsIconDark.svg">>
     /\ IsPrefix(<<"text-", "black", " ">>, output.left.link.className)
     /\ output.right[2].img.src = <<"/assets/githubLogoDark.svg">>
     /\ output.right[3].img.src = <<"/assets/docsIconDark.svg">>

C1_Witness ==
  /\ mounted /\ mode = Str(<<"system">>) /\ output.status = "ok"
  /\ \E i \in DOMAIN history :
        /\ history[i].mode = Undefined /\ history[i].className = Undefined
        /\ history[i].markup.right[2].img.src = <<"/assets/githubLogoDark.svg">>

\* C2: whenever the footer is rendered with mode "dark", the bundle it used
\* is exactly the dark variant: emphasis colour white, githubLogoLight.svg
\* and docsIconLight.svg, and the markup shows these values.
C2_DarkVariant ==
  (mounted /\ mode = Dark) =>
     /\ output.status = "ok"
     /\ assets = DarkVariant
     /\ IsPrefix(<<"text-", "white", " ">>, output.left.link.className)
     /\ output.right[2].img.src = <<"/assets/githubLogoLight.svg">>
     /\ output.right[3].img.src = <<"/assets/docsIconLight.svg">>

C2_Witness ==
  /\ mounted /\ mode = Dark /\ className = Str(<<"extra-class">>)
  /\ Occurs(<<"extra-class">>, output.className)
  /\ assets.emphasisColor = <<"white">>

\* C3: on a re-render of the mounted footer the bundle is recomputed only if
\* mode differs from the previous render's mode; when mode is unchanged the
\* same bundle object is reused and nothing is allocated, whatever happened
\* to className.
C3_Memoized ==
  (mounted /\ prev.valid) =>
     /\ (prev.mode = mode =>
           hook.value = prev.ref /\ nextId = prev.nextId
           /\ IsObject(heap, hook.value))
     /\ (hook.value # prev.ref => prev.mode # mode)

C3_Witness ==
  /\ mounted /\ prev.valid
  /\ prev.mode = mode /\ prev.className # className
  /\ hook.value = prev.ref

\* C4: a className string passed to Footer occurs verbatim in the root
\* element's class attribute; when className is omitted the attribute still
\* contains every fixed base class and the PAGE_PADDING token, and the render
\* does not fail.
C4_RootClass ==
  mounted =>
     /\ output.status = "ok"
     /\ (className.t = "string" => Occurs(className.s, output.className))
     /\ (className = Undefined =>
           /\ IsPrefix(<<"flex", " ", "h-[120px]", " ", "items-center", " ",
                         "justify-between", " ", "text-base", " ">>,
                       output.className)
           /\ \E i \in DOMAIN ClassList(output.className) :
                 ClassList(output.className)[i] = PAGE_PADDING)

C4_Witness ==
  /\ mounted /\ className = Str(<<"mt-4", " ", "undefined">>)
  /\ Occurs(<<"mt-4", " ", "undefined">>, output.className)
  /\ \E i \in DOMAIN history :
        history[i].className = Undefined /\ history[i].markup.status = "ok"

\* C5: the href of the "Git commit" link is the commit URL prefix followed by
\* exactly the value of the commit-hash variable, and when the variable is
\* empty or undefined nothing follows the prefix (a trailing empty segment).
C5_CommitHref ==
  (mounted /\ output.status = "ok") =>
     output.right[1].href =
        CommitUrlPrefix \o (IF env.t = "string" THEN env.s ELSE <<>>)

\* C6: Footer is total: every render, for every mode, className and
\* commit-hash configuration, absent or not, produces a markup tree and never
\* an error outcome.
C6_Total ==
  /\ mounted => output.status = "ok"
  /\ \A i \in DOMAIN history : history[i].markup.status = "ok"

C6_Witness ==
  /\ mounted /\ mode = Undefined /\ className = Undefined /\ env = Undefined
  /\ output.status = "ok" /\ Len(output.right) = 3

\* C7: the right region holds exactly three links in the order commit link,
\* repository link with the bundle's githubLogo as image, documentation link
\* with the bundle's docsIcon as image; the order and the link targets are
\* the same for every mode and className.
C7_RightRegion ==
  /\ (mounted /\ output.status = "ok") =>
        /\ Len(output.right) = 3
        /\ IsPrefix(CommitUrlPrefix, output.right[1].href)
        /\ output.right[1].text = <<"Git", " ", "commit">>
        /\ ~output.right[1].img.present
        /\ output.right[2].href = <<"https://github.com/gitcoinco/passport">>
        /\ output.right[2].img = Img(assets.githubLogo, <<"Github", " ", "Logo">>)
        /\ output.right[3].href =
              <<"https://docs.passport.gitcoin.co/building-with-passport/quick-start-guide">>
        /\ output.right[3].img = Img(assets.docsIcon, <<"Docs", " ", "Icon">>)
  /\ \A i, j \in DOMAIN history :
        Hrefs(history[i].markup.right) = Hrefs(history[j].markup.right)

C7_Witness ==
  /\ mounted /\ Len(output.right) = 3
  /\ \E i \in DOMAIN history :
        /\ history[i].mode = Dark /\ mode # Dark
        /\ history[i].className # className
        /\ history[i].markup.right[2].img.src # output.right[2].img.src
        /\ Hrefs(history[i].markup.right) = Hrefs(output.right)

\* C8: rendering is idempotent: any two renders with the same mode,
\* className and commit-hash configuration yield the same markup, whatever
\* was rendered before them; and the configuration every render read is the
\* unchanged configuration.
C8_Idempotent ==
  /\ \A i, j \in DOMAIN history :
        Inputs(history[i]) = Inputs(history[j])
           => history[i].markup = history[j].markup
  /\ \A i \in DOMAIN history : history[i].env = env

C8_Witness ==
  /\ Len(history) >= 3
  /\ Inputs(history[1]) = Inputs(history[3])
  /\ history[2].mode # history[1].mode
  /\ history[2].markup # history[1].markup
  /\ history[1].markup = history[3].markup

\* C9: the memoised bundle is never stale: the bundle a render used equals
\* getAssets of that render's mode, and its three fields belong to one
\* variant.
C9_NeverStale ==
  mounted =>
     /\ IsObject(heap, hook.value)
     /\ hook.deps = mode
     /\ assets = getAssets(mode)
     /\ assets \in {LightVariant, DarkVariant}
     /\ (assets = DarkVariant <=> mode = Dark)

C9_Witness ==
  /\ mounted /\ prev.valid /\ Len(history) >= 3
  /\ history[Len(history) - 2].mode = Dark
  /\ prev.mode = Str(<<"light">>) /\ mode = Dark
  /\ assets = DarkVariant

\* C10: when className is omitted nothing is appended to the root element's
\* class list: its class tokens are exactly the fixed base classes and the
\* PAGE_PADDING token.
C10_NothingAppended ==
  (mounted /\ className = Undefined /\ output.status = "ok") =>
     ClassList(output.className) =
        << <<"flex">>, <<"h-[120px]">>, <<"items-center">>,
           <<"justify-between">>, <<"text-base">>, PAGE_PADDING >>

====
